---- MODULE Spec2Model ----
(***************************************************************************)
(* Model of package ipapk (parser.go): NewAppParser and its helpers.       *)
(*                                                                         *)
(* One call of NewAppParser is a run of the state machine.  The input file *)
(* (its base name, its byte length, the names of its archive entries) is   *)
(* fixed by Init; the results of the external collaborators (os, zip,      *)
(* androidbinary, apk, plist, iospng, png) are chosen when they are called.*)
(* An entry name is the sequence of its "/"-separated segments, a base     *)
(* file name the sequence of its "."-separated parts.                      *)
(***************************************************************************)
EXTENDS Integers, Sequences, FiniteSets, TLC

\* ------------------------------------------------------------------ bounds
MaxEntries == 3
MaxSize == 2

\* --------------------------------------------------------------- constants
iosExt == ".ipa"
androidExt == ".apk"

NoErr == "nil"
NilImage == "nil"
Nil == [nil |-> TRUE]

ErrImageData == "iospng: image data error"
ErrPngHeader == "iospng: not a png"

\* ------------------------------------------------------------ input spaces
FileNames ==
    { <<"app", "apk">>, <<"app", "ipa">>, <<"app", "APK">>,
      <<"app", "ipa", "zip">>, <<"apk">> }

EntryNames ==
    { <<"AndroidManifest.xml">>,
      <<"res", "AndroidManifest.xml">>,
      <<"Payload", "App.app", "Info.plist">>,
      <<"Payload", "AppIcon60x60.app", "Info.plist">>,
      <<"Payload", "App.app", "AppIcon60x60@2x.png">>,
      <<"Payload", "App.app", "Base.lproj", "Info.plist">> }

SeqsUpTo(S, n) == UNION { [1..k -> S] : k \in 0..n }

Labels == {"", "Example", "@0x7F040001"}

\* ---------------------------------------------------------- pure functions

\* filepath.Ext: the suffix starting at the last dot of the base name.
Ext(parts) ==
    IF Len(parts) < 2 THEN "" ELSE "." \o parts[Len(parts)]

IsManifestName(n) == n = <<"AndroidManifest.xml">>

SegEndsWithPayload(s) == s \in {"Payload"}
SegStartsWithInfoPlist(s) == s \in {"Info.plist"}
SegContainsAppIcon(s) == s \in {"AppIcon60x60.app", "AppIcon60x60@2x.png"}

\* reInfoPlist.MatchString: unanchored Payload/[^/]+/Info\.plist
reInfoPlistMatch(n) ==
    \E k \in 1..(Len(n) - 2) :
        /\ SegEndsWithPayload(n[k])
        /\ n[k + 1] # ""
        /\ SegStartsWithInfoPlist(n[k + 2])

\* strings.Contains(f.Name, "AppIcon60x60")
ContainsAppIcon(n) == \E k \in 1..Len(n) : SegContainsAppIcon(n[k])

NoRefs == [xmlFile |-> 0, plistFile |-> 0, iosIconFile |-> 0]

ScanStepFirst(r, at, n) ==
    IF IsManifestName(n)
    THEN (IF r.xmlFile = 0 THEN [r EXCEPT !.xmlFile = at] ELSE r)
    ELSE IF reInfoPlistMatch(n)
    THEN (IF r.plistFile = 0 THEN [r EXCEPT !.plistFile = at] ELSE r)
    ELSE IF ContainsAppIcon(n)
    THEN (IF r.iosIconFile = 0 THEN [r EXCEPT !.iosIconFile = at] ELSE r)
    ELSE r

\* one iteration of the scan loop: the switch over the entry's name
ScanStep(r, at, n) ==
    IF IsManifestName(n) THEN [r EXCEPT !.xmlFile = at]
    ELSE IF reInfoPlistMatch(n) THEN [r EXCEPT !.plistFile = at]
    ELSE IF ContainsAppIcon(n) THEN [r EXCEPT !.iosIconFile = at]
    ELSE r

IsAndroidExtFold(e) == e \in {".apk", ".APK"}

IsAndroidExt(e) == e = androidExt

IsIosExt(e) == e = iosExt

\* new(AppInfo): the zero value
ZeroAppInfo ==
    [Name |-> "", BundleId |-> "", Version |-> "", Build |-> "",
     Icon |-> NilImage, Size |-> 0]

\* parseApkFile, after a successful manifest decode
ManifestToInfo(m) ==
    [ZeroAppInfo EXCEPT !.BundleId = m.Package,
                        !.Version = m.VersionName,
                        !.Build = m.VersionCode]

PlistToInfoNameOnly(p) ==
    [ZeroAppInfo EXCEPT !.Name = p.CFBundleName,
                        !.BundleId = p.CFBundleIdentifier,
                        !.Version = p.CFBundleShortVersion,
                        !.Build = p.CFBundleVersion]

\* parseIpaFile, after a successful plist decode
PlistToInfo(p) ==
    [ZeroAppInfo EXCEPT
        !.Name = IF p.CFBundleDisplayName = ""
                 THEN p.CFBundleName ELSE p.CFBundleDisplayName,
        !.BundleId = p.CFBundleIdentifier,
        !.Version = p.CFBundleShortVersion,
        !.Build = p.CFBundleVersion]

IpaIconResultStrict(revertErr, dec) ==
    IF revertErr # NoErr
    THEN [image |-> NilImage, err |-> "failed png revert optimization"]
    ELSE IF dec.err # NoErr
    THEN [image |-> NilImage, err |-> "failed decoding png"]
    ELSE [image |-> dec.image, err |-> NoErr]

\* parseIpaIcon, from the reversal's error and the result of png.Decode
IpaIconResult(revertErr, dec) ==
    IF revertErr = ErrImageData
    THEN [image |-> dec.image, err |-> NoErr]
    ELSE IF revertErr # NoErr
    THEN [image |-> NilImage, err |-> "failed png revert optimization"]
    ELSE IF dec.err # NoErr
    THEN [image |-> NilImage, err |-> "failed decoding png"]
    ELSE [image |-> dec.image, err |-> NoErr]

ApkIconLabelResultStrict(ic, lab) ==
    IF ic = NilImage
    THEN [icon |-> NilImage, label |-> "", err |-> "Icon is not found"]
    ELSE IF lab.err # NoErr
    THEN [icon |-> NilImage, label |-> "", err |-> lab.err]
    ELSE [icon |-> ic, label |-> lab.s, err |-> NoErr]

\* parseApkIconAndLabel, from the results of pkg.Icon and pkg.Label
ApkIconLabelResult(ic, lab) ==
    IF ic = NilImage
    THEN [icon |-> NilImage, label |-> "", err |-> "Icon is not found"]
    ELSE [icon |-> ic, label |-> lab.s, err |-> NoErr]

SetSizeForgotten(inf, st) == inf

\* info.Size = stat.Size()
SetSize(inf, st) == [inf EXCEPT !.Size = st.size]

Range(s) == { s[k] : k \in 1..Len(s) }

RunDeferredLeak(d, o) == o

\* the deferred Close calls of the frames in d, run at return or panic
RunDeferred(d, o) == o \ Range(d)

\* -------------------------------------------------- collaborator outcomes
PngDecodeOutcomes ==
    { [image |-> "png", err |-> NoErr],
      [image |-> NilImage, err |-> "png: invalid format"] }

RevertOutcomes == {NoErr, ErrImageData, ErrPngHeader}

IconOutcomes == {"png", NilImage}

\* pkg.Label returns a string and an error; the string beside an error is
\* whatever the resolver left in it
LabelOutcomes ==
    { [s |-> l, err |-> NoErr] : l \in Labels } \cup
    { [s |-> l, err |-> "label not resolved"] : l \in {"", "@0x7F040001"} }

Manifests ==
    [Package : {"", "com.example.app"},
     VersionName : {"", "1.2.3"},
     VersionCode : {"", "7"}]

Plists ==
    [CFBundleName : {"", "Example"},
     CFBundleDisplayName : {"", "Example Pro"},
     CFBundleVersion : {"", "7"},
     CFBundleShortVersion : {"", "1.2.3"},
     CFBundleIdentifier : {"", "com.example.app"}]

\* -------------------------------------------------------------------- state
VARIABLES
    fileName,   \* base name of the input file, split at dots
    fileSize,   \* byte length of the input file
    entries,    \* names of the archive's entries, in archive order
    pc,         \* position of the call
    stat,       \* file.Stat() result
    idx,        \* position of the scan loop
    refs,       \* xmlFile, plistFile, iosIconFile (0 = nil, else entry index)
    info,       \* *AppInfo local of the platform branch
    err,        \* err local of the platform branch
    icon,       \* icon local
    label,      \* label local
    manifest,   \* decoded androidManifest (parseApkFile)
    plist,      \* decoded iosPlist (parseIpaFile)
    revert,     \* error of iospng.PngRevertOptimization (parseIpaIcon)
    decoded,    \* result of png.Decode (parseIpaIcon)
    iconOut,    \* result of pkg.Icon (parseApkIconAndLabel)
    labelOut,   \* result of pkg.Label (parseApkIconAndLabel)
    open,       \* handles currently open
    defers,     \* handles whose Close is deferred, innermost frame last
    badClose,   \* a Close ran on a handle that was not open
    ret         \* what NewAppParser returned

vars == << fileName, fileSize, entries, pc, stat, idx, refs, info, err, icon,
           label, manifest, plist, revert, decoded, iconOut, labelOut, open,
           defers, badClose, ret >>

input == << fileName, fileSize, entries >>
locals == << info, err, icon, label >>
trace == << manifest, plist, revert, decoded, iconOut, labelOut >>
handles == << open, defers, badClose >>

Init ==
    /\ fileName \in FileNames
    /\ fileSize \in 1..MaxSize
    /\ entries \in SeqsUpTo(EntryNames, MaxEntries)
    /\ pc = "open"
    /\ stat = Nil
    /\ idx = 1
    /\ refs = NoRefs
    /\ info = Nil
    /\ err = NoErr
    /\ icon = NilImage
    /\ label = ""
    /\ manifest = Nil
    /\ plist = Nil
    /\ revert = NoErr
    /\ decoded = Nil
    /\ iconOut = "unset"
    /\ labelOut = Nil
    /\ open = {}
    /\ defers = << >>
    /\ badClose = FALSE
    /\ ret = Nil

\* return from NewAppParser: the deferred closes run, then the caller sees
\* the pair
Return(i, e) ==
    /\ pc' = "done"
    /\ ret' = [info |-> i, err |-> e]
    /\ open' = RunDeferred(defers, open)
    /\ badClose' = (badClose \/ ~(Range(defers) \subseteq open))
    /\ defers' = << >>

\* a nil dereference in NewAppParser: the deferred closes run, nothing is
\* returned
Panic ==
    /\ pc' = "panic"
    /\ ret' = Nil
    /\ open' = RunDeferred(defers, open)
    /\ badClose' = (badClose \/ ~(Range(defers) \subseteq open))
    /\ defers' = << >>

\* h, err := open(); if err == nil { defer h.Close() }
Acquire(h) ==
    /\ open' = open \cup {h}
    /\ defers' = Append(defers, h)
    /\ badClose' = badClose

\* return from a helper that deferred the Close of one handle
ReturnHelper ==
    /\ open' = RunDeferred(<<defers[Len(defers)]>>, open)
    /\ badClose' = (badClose \/ defers[Len(defers)] \notin open)
    /\ defers' = SubSeq(defers, 1, Len(defers) - 1)

\* ------------------------------------------------------------ NewAppParser
Open ==
    /\ pc = "open"
    /\ \/ /\ Acquire("file")
          /\ pc' = "stat"
          /\ UNCHANGED ret
       \/ Return(Nil, "failed opening file")
    /\ UNCHANGED << input, stat, idx, refs, locals, trace >>

Stat ==
    /\ pc = "stat"
    /\ \/ /\ stat' = [name |-> fileName, size |-> fileSize]
          /\ pc' = "zip"
          /\ UNCHANGED << ret, handles >>
       \/ /\ Return(Nil, "failed getting file stat")
          /\ UNCHANGED stat
    /\ UNCHANGED << input, idx, refs, locals, trace >>

ZipNewReader ==
    /\ pc = "zip"
    /\ \/ /\ pc' = "scan"
          /\ UNCHANGED << ret, handles >>
       \/ Return(Nil, "failed reading zip file")
    /\ UNCHANGED << input, stat, idx, refs, locals, trace >>

ScanEntry ==
    /\ pc = "scan"
    /\ idx <= Len(entries)
    /\ refs' = ScanStep(refs, idx, entries[idx])
    /\ idx' = idx + 1
    /\ UNCHANGED << input, pc, stat, locals, trace, handles, ret >>

Dispatch ==
    /\ pc = "scan"
    /\ idx > Len(entries)
    /\ IF IsAndroidExt(Ext(stat.name))
       THEN pc' = "parseApkFile" /\ UNCHANGED << ret, handles >>
       ELSE IF IsIosExt(Ext(stat.name))
       THEN pc' = "parseIpaFile" /\ UNCHANGED << ret, handles >>
       ELSE Return(Nil, "unknown platform")
    /\ UNCHANGED << input, stat, idx, refs, locals, trace >>

\* ------------------------------------------------------------ Android path

\* parseApkFile: the nil check, then parseAndroidManifest's xmlFile.Open()
ParseApkFileEntry ==
    /\ pc = "parseApkFile"
    /\ IF refs.xmlFile = 0
       THEN /\ info' = Nil
            /\ err' = "AndroidManifest.xml is not found"
            /\ pc' = "parseApkIconAndLabel"
            /\ UNCHANGED handles
       ELSE \/ /\ info' = Nil
               /\ err' = "zip: entry open failed"
               /\ pc' = "parseApkIconAndLabel"
               /\ UNCHANGED handles
            \/ /\ Acquire("manifestRc")
               /\ pc' = "parseAndroidManifest"
               /\ UNCHANGED << info, err >>
    /\ UNCHANGED << input, stat, idx, refs, icon, label, trace, ret >>

\* parseAndroidManifest from ReadAll on, and the rest of parseApkFile
ParseAndroidManifestBody ==
    /\ pc = "parseAndroidManifest"
    /\ \/ /\ \E e \in {"read failed", "androidbinary: bad xml",
                       "xml: decode failed"} : err' = e
          /\ info' = Nil
          /\ UNCHANGED manifest
       \/ \E m \in Manifests :
             /\ manifest' = m
             /\ info' = ManifestToInfo(m)
             /\ err' = NoErr
    /\ ReturnHelper
    /\ pc' = "parseApkIconAndLabel"
    /\ UNCHANGED << input, stat, idx, refs, icon, label, plist, revert,
                    decoded, iconOut, labelOut, ret >>

\* parseApkIconAndLabel: apk.OpenFile
ParseApkOpenPkg ==
    /\ pc = "parseApkIconAndLabel"
    /\ \/ /\ icon' = NilImage
          /\ label' = ""
          /\ err' = "apk: open failed"
          /\ pc' = "apkAssign"
          /\ UNCHANGED handles
       \/ /\ Acquire("pkg")
          /\ pc' = "apkResolve"
          /\ UNCHANGED << icon, label, err >>
    /\ UNCHANGED << input, stat, idx, refs, info, trace, ret >>

\* parseApkIconAndLabel: pkg.Icon, pkg.Label, return
ParseApkResolve ==
    /\ pc = "apkResolve"
    /\ \E ic \in IconOutcomes, lab \in LabelOutcomes :
          /\ iconOut' = ic
          /\ labelOut' = IF ic = NilImage THEN Nil ELSE lab
          /\ icon' = ApkIconLabelResult(ic, lab).icon
          /\ label' = ApkIconLabelResult(ic, lab).label
          /\ err' = ApkIconLabelResult(ic, lab).err
    /\ ReturnHelper
    /\ pc' = "apkAssign"
    /\ UNCHANGED << input, stat, idx, refs, info, manifest, plist, revert,
                    decoded, ret >>

\* NewAppParser, Android branch after the two calls: the field stores
\* dereference info, which is nil when parseApkFile failed
ApkAssign ==
    /\ pc = "apkAssign"
    /\ IF info = Nil
       THEN Panic /\ UNCHANGED info
       ELSE /\ info' = SetSize([info EXCEPT !.Name = label, !.Icon = icon],
                               stat)
            /\ Return(info', err)
    /\ UNCHANGED << input, stat, idx, refs, err, icon, label, trace >>

\* ---------------------------------------------------------------- iOS path

\* parseIpaFile: the nil check and plistFile.Open()
ParseIpaFileEntry ==
    /\ pc = "parseIpaFile"
    /\ IF refs.plistFile = 0
       THEN /\ info' = Nil
            /\ err' = "info.plist is not found"
            /\ pc' = "ipaFileRet"
            /\ UNCHANGED handles
       ELSE \/ /\ info' = Nil
               /\ err' = "failed opening plist file"
               /\ pc' = "ipaFileRet"
               /\ UNCHANGED handles
            \/ /\ Acquire("plistRc")
               /\ pc' = "parseIpaFileBody"
               /\ UNCHANGED << info, err >>
    /\ UNCHANGED << input, stat, idx, refs, icon, label, trace, ret >>

\* parseIpaFile from ReadAll on
ParseIpaFileBody ==
    /\ pc = "parseIpaFileBody"
    /\ \/ /\ \E e \in {"failed reading plist data",
                       "failed decoding plist data"} : err' = e
          /\ info' = Nil
          /\ UNCHANGED plist
       \/ \E p \in Plists :
             /\ plist' = p
             /\ info' = PlistToInfo(p)
             /\ err' = NoErr
    /\ ReturnHelper
    /\ pc' = "ipaFileRet"
    /\ UNCHANGED << input, stat, idx, refs, icon, label, manifest, revert,
                    decoded, iconOut, labelOut, ret >>

\* NewAppParser, iOS branch: the error check after parseIpaFile
IpaFileCheck ==
    /\ pc = "ipaFileRet"
    /\ IF err # NoErr
       THEN Return(Nil, err)
       ELSE pc' = "parseIpaIcon" /\ UNCHANGED << ret, handles >>
    /\ UNCHANGED << input, stat, idx, refs, locals, trace >>

\* parseIpaIcon: the nil check and iconFile.Open()
ParseIpaIconEntry ==
    /\ pc = "parseIpaIcon"
    /\ IF refs.iosIconFile = 0
       THEN /\ icon' = NilImage
            /\ err' = "Icon is not found"
            /\ pc' = "ipaIconRet"
            /\ UNCHANGED handles
       ELSE \/ /\ icon' = NilImage
               /\ err' = "Failed opening icon file"
               /\ pc' = "ipaIconRet"
               /\ UNCHANGED handles
            \/ /\ Acquire("iconRc")
               /\ pc' = "parseIpaIconBody"
               /\ UNCHANGED << icon, err >>
    /\ UNCHANGED << input, stat, idx, refs, info, label, trace, ret >>

\* parseIpaIcon: the reversal, the decode, return
ParseIpaIconBody ==
    /\ pc = "parseIpaIconBody"
    /\ \E rv \in RevertOutcomes, dec \in PngDecodeOutcomes :
          /\ revert' = rv
          /\ decoded' = IF rv \in {NoErr, ErrImageData} THEN dec ELSE Nil
          /\ icon' = IpaIconResult(rv, dec).image
          /\ err' = IpaIconResult(rv, dec).err
    /\ ReturnHelper
    /\ pc' = "ipaIconRet"
    /\ UNCHANGED << input, stat, idx, refs, info, label, manifest, plist,
                    iconOut, labelOut, ret >>

\* NewAppParser, iOS branch after parseIpaIcon
IpaAssign ==
    /\ pc = "ipaIconRet"
    /\ IF err # NoErr
       THEN Return(Nil, "failed parsing ipa icon file") /\ UNCHANGED info
       ELSE /\ info' = SetSize([info EXCEPT !.Icon = icon], stat)
            /\ Return(info', err)
    /\ UNCHANGED << input, stat, idx, refs, err, icon, label, trace >>

Next ==
    \/ Open
    \/ Stat
    \/ ZipNewReader
    \/ ScanEntry
    \/ Dispatch
    \/ ParseApkFileEntry
    \/ ParseAndroidManifestBody
    \/ ParseApkOpenPkg
    \/ ParseApkResolve
    \/ ApkAssign
    \/ ParseIpaFileEntry
    \/ ParseIpaFileBody
    \/ IpaFileCheck
    \/ ParseIpaIconEntry
    \/ ParseIpaIconBody
    \/ IpaAssign

Spec == Init /\ [][Next]_vars

\* --------------------------------------------------------------- typing
TypeOK ==
    /\ pc \in {"open", "stat", "zip", "scan", "parseApkFile",
               "parseAndroidManifest", "parseApkIconAndLabel", "apkResolve",
               "apkAssign", "parseIpaFile", "parseIpaFileBody", "ipaFileRet",
               "parseIpaIcon", "parseIpaIconBody", "ipaIconRet", "done",
               "panic"}
    /\ idx \in 1..(Len(entries) + 1)
    /\ open \subseteq {"file", "pkg", "manifestRc", "plistRc", "iconRc"}

\* ------------------------------------------------------ claim vocabulary
Terminal == pc \in {"done", "panic"}

\* the zip directory of the input file was read
ZipRead ==
    /\ stat # Nil
    /\ pc # "zip"
    /\ ~(pc = "done" /\ ret.err = "failed reading zip file")

ScanDone == ZipRead /\ (pc # "scan" \/ idx > Len(entries))

\* the case of the switch an entry name falls into
CaseOf(n) ==
    IF IsManifestName(n) THEN "xmlFile"
    ELSE IF reInfoPlistMatch(n) THEN "plistFile"
    ELSE IF ContainsAppIcon(n) THEN "iosIconFile"
    ELSE "none"

Categories == {"xmlFile", "plistFile", "iosIconFile"}

FirstOfCase(cat) ==
    LET S == { k \in 1..Len(entries) : CaseOf(entries[k]) = cat }
    IN  IF S = {} THEN 0 ELSE CHOOSE k \in S : \A j \in S : k <= j

LastOfCase(cat, upto) ==
    LET S == { k \in 1..upto : CaseOf(entries[k]) = cat }
    IN  IF S = {} THEN 0 ELSE CHOOSE k \in S : \A j \in S : j <= k

\* ---------------------------------------------------------------------- C1
\* C1: an .apk that reads as a zip archive and has no entry named
\* AndroidManifest.xml ends the call with the manifest-not-found error and
\* no record: no panic, no record with a nil error.
C1_ManifestNotFound ==
    ( /\ Terminal
      /\ ZipRead
      /\ IsAndroidExt(Ext(fileName))
      /\ \A k \in 1..Len(entries) : ~IsManifestName(entries[k]) )
    => ( /\ pc = "done"
         /\ ret.info = Nil
         /\ ret.err = "AndroidManifest.xml is not found" )

\* ---------------------------------------------------------------------- C2
\* C2: whatever NewAppParser returns is either a nil error with a record
\* whose icon is non-nil and whose size is set, or a non-nil error with a nil
\* record.
C2_RecordXorError ==
    pc = "done" =>
        \/ /\ ret.err = NoErr
           /\ ret.info # Nil
           /\ ret.info.Icon # NilImage
           /\ ret.info.Size = fileSize
        \/ /\ ret.err # NoErr
           /\ ret.info = Nil

\* ---------------------------------------------------------------------- C3
\* C3 as stated: a file that could be opened and whose extension is neither
\* .apk nor .ipa fails with the unknown-platform error and no record,
\* whatever its contents, readable as a zip archive or not.
C3_UnknownPlatformAnyContents ==
    ( /\ Terminal
      /\ stat # Nil
      /\ ~IsAndroidExt(Ext(fileName))
      /\ ~IsIosExt(Ext(fileName)) )
    => ( /\ pc = "done"
         /\ ret.info = Nil
         /\ ret.err = "unknown platform" )

\* C3 amended: a file whose zip directory was read and whose extension is
\* neither .apk nor .ipa (case-sensitive) fails with the unknown-platform
\* error and no record, whatever its entries.
C3_UnknownPlatform ==
    ( /\ Terminal
      /\ ZipRead
      /\ Ext(fileName) \notin {".apk", ".ipa"} )
    => ( /\ pc = "done"
         /\ ret.info = Nil
         /\ ret.err = "unknown platform" )

C3_Witness ==
    /\ pc = "done"
    /\ ZipRead
    /\ Ext(fileName) = ".APK"
    /\ \E k \in 1..Len(entries) : IsManifestName(entries[k])
    /\ ret.err = "unknown platform"

\* ---------------------------------------------------------------------- C4
\* C4: when the final png.Decode in parseIpaIcon fails, parseIpaIcon returns
\* a decode error, in both branches; it never returns a nil image with a nil
\* error, and the call fails.
C4_DecodeFailureFatal ==
    /\ ( pc = "ipaIconRet" /\ decoded # Nil /\ decoded.err # NoErr )
          => err = "failed decoding png"
    /\ pc = "ipaIconRet" => ~(icon = NilImage /\ err = NoErr)
    /\ ( pc = "done" /\ decoded # Nil /\ decoded.err # NoErr )
          => ret.err # NoErr

\* ---------------------------------------------------------------------- C5
\* C5: when the reversal reports ErrImageData and the bytes written so far
\* decode as a PNG, parseIpaIcon returns that image with a nil error and the
\* call succeeds with that icon; any other reversal error is returned
\* wrapped and fails the call.
C5_RecoverableImageData ==
    /\ ( pc = "ipaIconRet" /\ revert = ErrImageData /\ decoded.err = NoErr )
          => ( icon = decoded.image /\ icon # NilImage /\ err = NoErr )
    /\ ( pc = "done" /\ revert = ErrImageData /\ decoded.err = NoErr )
          => ( /\ ret.err = NoErr
               /\ ret.info # Nil
               /\ ret.info.Icon = decoded.image
               /\ ret.info.Icon # NilImage )
    /\ ( pc = "ipaIconRet" /\ revert \notin {NoErr, ErrImageData} )
          => ( icon = NilImage /\ err = "failed png revert optimization" )
    /\ ( pc = "done" /\ revert \notin {NoErr, ErrImageData} )
          => ( ret.info = Nil /\ ret.err = "failed parsing ipa icon file" )

C5_Witness ==
    /\ pc = "done"
    /\ revert = ErrImageData
    /\ decoded.err = NoErr
    /\ ret.err = NoErr
    /\ ret.info.Icon = "png"

\* ---------------------------------------------------------------------- C6
\* C6 as stated: after the scan each of the three references is the FIRST
\* entry in archive order that falls into its category; where two or more
\* entries fall into one category the earliest is kept.
C6_FirstMatchKept ==
    ScanDone => \A cat \in Categories : refs[cat] = FirstOfCase(cat)

\* C6 amended: the reference of a category is the LAST entry in archive
\* order that the switch puts into that category (an entry goes to the first
\* of the three cases its name matches); a later such entry replaces an
\* earlier one.  Stated for every prefix of the scan.
C6_LastMatchKept ==
    \A cat \in Categories : refs[cat] = LastOfCase(cat, idx - 1)

C6_Witness ==
    /\ pc = "done"
    /\ ScanDone
    /\ \E a, b \in 1..Len(entries) :
          /\ a < b
          /\ CaseOf(entries[a]) = "plistFile"
          /\ CaseOf(entries[b]) = "plistFile"
          /\ entries[a] # entries[b]
          /\ refs.plistFile = b

\* ---------------------------------------------------------------------- C7
\* C7: for a decoded plist the name is CFBundleDisplayName when that is
\* non-empty and CFBundleName otherwise; bundleId, version and build are
\* CFBundleIdentifier, CFBundleShortVersionString and CFBundleVersion.
PlistFieldsOf(i) ==
    /\ plist.CFBundleDisplayName # "" => i.Name = plist.CFBundleDisplayName
    /\ plist.CFBundleDisplayName = "" => i.Name = plist.CFBundleName
    /\ i.BundleId = plist.CFBundleIdentifier
    /\ i.Version = plist.CFBundleShortVersion
    /\ i.Build = plist.CFBundleVersion

C7_IpaNameRule ==
    /\ ( plist # Nil /\ ~Terminal ) => PlistFieldsOf(info)
    /\ ( plist # Nil /\ pc = "done" /\ ret.info # Nil )
          => PlistFieldsOf(ret.info)

C7_Witness ==
    /\ pc = "done"
    /\ plist # Nil
    /\ plist.CFBundleDisplayName = "Example Pro"
    /\ plist.CFBundleName = "Example"
    /\ ret.info # Nil
    /\ ret.info.Name = "Example Pro"

\* ---------------------------------------------------------------------- C8
\* C8: every returned record has Size equal to the byte length of the input
\* file, and no step gives Size another value.
C8_SizeIsFileLength ==
    /\ ( pc = "done" /\ ret.info # Nil ) => ret.info.Size = fileSize
    /\ info # Nil => info.Size \in {0, fileSize}

C8_Witness ==
    /\ pc = "done"
    /\ ret.info # Nil
    /\ fileSize = 2
    /\ ret.info.Size = 2
    /\ manifest # Nil

\* ---------------------------------------------------------------------- C9
LabelFailed == labelOut # Nil /\ labelOut.err # NoErr

C10_HandlesReleased ==
    /\ Terminal => ( open = {} /\ defers = << >> )
    /\ ~badClose
    /\ "manifestRc" \in open => pc = "parseAndroidManifest"
    /\ "pkg" \in open => pc = "apkResolve"
    /\ "plistRc" \in open => pc = "parseIpaFileBody"
    /\ "iconRc" \in open => pc = "parseIpaIconBody"
    /\ "file" \in open <=> pc \notin {"open", "done", "panic"}

C10_Witness ==
    /\ pc = "panic"
    /\ iconOut = "png"
    /\ \E k \in 1..Len(entries) : IsManifestName(entries[k])
    /\ open = {}

====
